---- MODULE Spec2Model ----
(***************************************************************************)
(* Model of the Mosaic API examples.                                       *)
(*                                                                         *)
(*   Spec         the web UI of create-shorts-post-to-socials (App.tsx):   *)
(*                Dropbox listing (await by await), selection,             *)
(*                processVideo and its poll timer, with Dropbox and the    *)
(*                Mosaic server as the environment.                        *)
(*   SpecWatcher  the Drive/Dropbox folder watcher with its persisted      *)
(*                seen-set.                                                *)
(*   SpecRoute    the chat route of vercel-ai-sdk-example (POST).          *)
(*   SpecDropbox  loadDropboxFiles and selectDropboxFile of App.tsx alone, *)
(*                with every page Dropbox can answer with.                 *)
(*   SpecHome     the Home page of vercel-ai-sdk-example, with useChat as  *)
(*                the environment.                                         *)
(*   SpecChat     the scroll handling of the Chat component; SpecChatLive  *)
(*                adds that time passes and due timers fire.               *)
(***************************************************************************)
EXTENDS Integers, Sequences, FiniteSets, Bags, TLC

\* ------------------------------------------------------------------ bounds
MaxJobs == 2        \* processVideo invocations
MaxTicks == 2       \* firings of the poll timer
MaxWatchFiles == 3  \* source files the watched folder can hold
MaxRestarts == 2    \* restarts of the watcher
MaxRequests == 2    \* POST requests to the chat route
MaxMessages == 2    \* messages in the body of a POST request
MaxPages == 2       \* pages of a Dropbox listing
MaxChat == 4        \* messages of the conversation of Home
MaxReloads == 2     \* clicks on Retry
MaxScrolls == 4     \* scroll events of the message list

\* ------------------------------------------------------------ JS values
Undefined == "undefined"
Null == "null"
None == 0

\* Ids of the video files the Dropbox account can hold.
Files == {"id:1"}
NoVideo == Null
Jobs == 1..MaxJobs

\* type ShortType = 'webinar' | 'talking' | 'prompt'
ShortType == {"webinar", "talking", "prompt"}

\* What the user can have typed into the prompt text box.
PromptTexts == {"", "add captions"}

\* The fallback prompt of processVideo.
DefaultPrompt == "make this an interesting short, add captions, and add in some background ai music"

\* import.meta.env: the README's .env.local sets the Mosaic key, the API base
\* and the Dropbox token only; a fuller one also sets the two agent ids.
Envs ==
    { [token |-> t, webinarAgent |-> a[1], talkingAgent |-> a[2]] :
        t \in {Undefined, "dropbox-token"},
        a \in { <<Undefined, Undefined>>, <<"agent-webinar", "agent-talking">> } }

\* Status values the run-status endpoint reports, and the progress it reports
\* with each.
RunStatus == {"pending", "processing", "success", "failed"}

ReportedProgress(status) ==
    CASE status = "pending" -> Undefined
      [] status = "processing" -> "50"
      [] status = "success" -> "100"
      [] OTHER -> "0"

\* outputsResponse.data as the outputs endpoint can return it: without an
\* outputs field, or with a list of descriptors, each given by its download_url
\* (Undefined when the descriptor has none).
OutputsData ==
    { [hasOutputs |-> FALSE, outputs |-> << >>],
      [hasOutputs |-> TRUE, outputs |-> << >>],
      [hasOutputs |-> TRUE, outputs |-> << "url-1" >>],
      [hasOutputs |-> TRUE, outputs |-> << Undefined, "url-1" >>] }

VARIABLES
    env,                    \* import.meta.env
    mounted,                \* whether the App component is mounted
    selectedVideo,          \* useState: id of the selected file, or Null
    dropboxFiles,           \* useState: ids of the listed video files, in order
    showDropboxFiles,       \* useState
    processingStatus,       \* useState: [status, message, progress, outputUrls]
    toast,                  \* title of the last toast processVideo has shown
    jobsStarted,            \* processVideo invocations so far
    job,                    \* the processVideo invocation before its timer
    requests,               \* requests of the upload pipeline issued, in order
    timers,                 \* jobs whose pollInterval is active
    timersCreated,          \* setInterval calls so far, per job
    run,                    \* server side: status of each job's agent run
    ticks,                  \* firings of the poll timers so far
    polls,                  \* bag of the poll callbacks that have not returned
    statusRequests,         \* get-agent-run-simple requests issued per job
    outputsRequests,        \* get-agent-run-outputs requests issued per job
    observed,               \* statuses the poll callbacks have received per job
    wFolder,                \* watcher: file ids in the watched folder
    wStore,                 \* watcher: the persisted seen-set
    wSeen,                  \* watcher: the seen-set in memory
    wPc,                    \* watcher: position in the watch loop
    wTodo,                  \* watcher: unseen files of the current pass
    wCurrent,               \* watcher: the file in flight, None if none
    wUploads,               \* watcher: uploads issued per file id
    wRuns,                  \* watcher: agent runs issued per file id
    wRestarts,              \* watcher: restarts so far
    rRequests,              \* route: POST requests received so far
    rPc,                    \* route: position of POST in its body
    rMessages,              \* route: the messages of the request body
    rFiltered,              \* route: filteredMessages
    rClient,                \* route: the MCP client: "none", "open", "closed"
    rStream,                \* route: the streamText call, if made
    rResponse,              \* route: the Response POST returned
    isLoadingDropboxFiles,  \* useState
    dLoads,                 \* the loadDropboxFiles calls, by call
    dToast,                 \* title of the last toast loadDropboxFiles has shown
    hMessages,              \* Home: messages of useChat
    hError,                 \* Home: whether useChat reports an error
    hStatus,                \* Home: "ready", or "streaming" while a response is awaited
    hReloads,               \* Home: reload() calls so far
    hAppends,               \* Home: append() calls so far
    currentStep,            \* Home: useState
    code,                   \* Home: useState
    hasInitialized,         \* Home: useRef
    hDirty,                 \* Home: what changed since the effects last ran
    cMounted,               \* Chat: whether the component is mounted
    scrollTop,              \* Chat: scrollRef.current.scrollTop
    lastScrollPosition,     \* Chat: lastScrollPositionRef.current
    isUserScrolling,        \* Chat: useState
    scrollTimeout,          \* Chat: scrollTimeoutRef.current, NoTimer if null
    cPending,               \* Chat: the pending timeouts: id and time left
    cTimeouts,              \* Chat: setTimeout calls so far
    cScrolls,               \* Chat: scroll events so far
    cSince                  \* Chat: time since the last scroll-up, up to the delay

uiVars ==
    << env, mounted, selectedVideo, dropboxFiles, showDropboxFiles >>

pollVars ==
    << timers, timersCreated, run, ticks, polls, statusRequests,
       outputsRequests, observed >>

appVars ==
    << uiVars, processingStatus, toast, jobsStarted, job, requests, pollVars >>

watcherVars ==
    << wFolder, wStore, wSeen, wPc, wTodo, wCurrent, wUploads, wRuns, wRestarts >>

routeVars ==
    << rRequests, rPc, rMessages, rFiltered, rClient, rStream, rResponse >>

dropboxVars == << isLoadingDropboxFiles, dLoads, dToast >>

homeVars ==
    << hMessages, hError, hStatus, hReloads, hAppends, currentStep, code,
       hasInitialized, hDirty >>

chatVars ==
    << cMounted, scrollTop, lastScrollPosition, isUserScrolling, scrollTimeout,
       cPending, cTimeouts, cScrolls, cSince >>

nonAppVars == << watcherVars, routeVars, dropboxVars, homeVars, chatVars >>

nonWatcherVars == << appVars, routeVars, dropboxVars, homeVars, chatVars >>

nonRouteVars == << appVars, watcherVars, dropboxVars, homeVars, chatVars >>

nonChatVars == << appVars, watcherVars, routeVars, dropboxVars, homeVars >>

\* What loadDropboxFiles leaves alone.
nonDropboxVars ==
    << env, mounted, selectedVideo, processingStatus, toast, jobsStarted, job,
       requests, pollVars, watcherVars, routeVars, homeVars, chatVars >>

nonHomeVars == << appVars, watcherVars, routeVars, dropboxVars, chatVars >>

vars == << appVars, watcherVars, routeVars, dropboxVars, homeVars, chatVars >>


\* ------------------------------------------------------- App: React state
\* A ProcessingStatus value. A message or progress the code leaves out is
\* Undefined; outputUrls left out is the empty list (the UI reads it through
\* outputUrls?.length ?? 0).
PS(status, message, progress, outputUrls) ==
    [status |-> status, message |-> message, progress |-> progress,
     outputUrls |-> outputUrls]

NoUrls == << >>

Idle == PS("idle", Undefined, Undefined, NoUrls)

\* The ids of the files of the rendered list.
Listed == { dropboxFiles[i] : i \in DOMAIN dropboxFiles }

\* setProcessingStatus(s): React drops a state update of an unmounted component.
SetProcessingStatus(s) == IF mounted THEN s ELSE processingStatus

\* Variant for sensitivity analysis: the button is disabled only while no video is selected.
ProcessButtonEnabled_AnyStatus == selectedVideo # NoVideo

\* disabled={!selectedVideo || processingStatus.status !== 'idle'}
ProcessButtonEnabled ==
    selectedVideo # NoVideo /\ processingStatus.status = "idle"

\* The agent_id / prompt / auto of the run-agent body, from the short type and
\* the prompt text processVideo was started with.
AgentRequest(st, pt, fileId) ==
    IF st = "webinar"
    THEN [file_id |-> fileId, agent_id |-> env.webinarAgent, prompt |-> Null,
          auto |-> FALSE]
    ELSE IF st = "talking"
    THEN [file_id |-> fileId, agent_id |-> env.talkingAgent, prompt |-> Null,
          auto |-> FALSE]
    ELSE [file_id |-> fileId, agent_id |-> Null,
          prompt |-> (IF pt # "" THEN pt ELSE DefaultPrompt), auto |-> TRUE]

\* progress || 0: a missing progress and 0 are both falsy.
ProgressOrZero(progress) ==
    IF progress = Undefined \/ progress = "0" THEN "0" ELSE progress

\* `Processing... ${progress || 0}%`
ProcessingMessage(progress) ==
    CASE ProgressOrZero(progress) = "0" -> "Processing... 0%"
      [] ProgressOrZero(progress) = "50" -> "Processing... 50%"
      [] OTHER -> "Processing... 100%"

\* Variant for sensitivity analysis: 'failed' is treated like a status that is still in progress.
PollStatus_NoError(status, progress) ==
    PS("processing", ProcessingMessage(progress), progress, NoUrls)

\* The status a poll callback sets for a reported status other than 'success'.
PollStatus(status, progress) ==
    IF status = "failed"
    THEN PS("error", "Processing failed. Please try again.", Undefined, NoUrls)
    ELSE PS("processing", ProcessingMessage(progress), progress, NoUrls)

\* (outputs || []).map(o => o.download_url).filter(Boolean)
RECURSIVE FilterBoolean(_)
FilterBoolean(urls) ==
    IF urls = << >> THEN << >>
    ELSE IF Head(urls) = Undefined THEN FilterBoolean(Tail(urls))
    ELSE << Head(urls) >> \o FilterBoolean(Tail(urls))

OutputUrls(data) ==
    IF data.hasOutputs THEN FilterBoolean(data.outputs) ELSE << >>

\* The status a poll callback sets once the outputs of a successful run arrived.
CompletedStatus(data) ==
    PS("completed", "Video processed successfully!", Undefined, OutputUrls(data))

\* Variant for sensitivity analysis: the timer is cleared after the first response.
ClearsInterval_Always(status) == TRUE

\* Variant for sensitivity analysis: the 'failed' branch does not clear the timer.
ClearsInterval_OnlySuccess(status) == status = "success"

\* Whether the poll callback calls clearInterval for a reported status.
ClearsInterval(status) == status = "success" \/ status = "failed"

\* Variant for sensitivity analysis: the outputs are requested for every terminal status.
RequestsOutputs_AnyTerminal(status) == status = "success" \/ status = "failed"

\* Whether the poll callback requests the run's outputs for a reported status.
RequestsOutputs(status) == status = "success"

\* A Mosaic HTTP request: the job that issued it, the endpoint, the identifier
\* in its URL (video_id, run id) and its JSON body.
Request(j, kind, ref, body) ==
    [job |-> j, kind |-> kind, ref |-> ref, body |-> body]

\* The identifiers the server hands out, by job: the video_id of get-upload-url
\* and the file_uuid of finalize-upload. (A run is named by its job.)
VideoIds == << "video-1", "video-2", "video-3", "video-4" >>
FileUuids == << "file-1", "file-2", "file-3", "file-4" >>
NoBody ==
    [file_id |-> Undefined, agent_id |-> Undefined, prompt |-> Undefined,
     auto |-> FALSE]


NoJob ==
    [id |-> 0, pc |-> "none", shortType |-> "webinar", promptText |-> "",
     video_id |-> Undefined, fileId |-> Undefined]

\* A callback of the poll timer of job j that has not returned: awaiting the
\* status response ("sent", then "served" once the server has answered with
\* status) or awaiting the outputs response ("outputs").
Poll(j, pc, status) == [job |-> j, pc |-> pc, status |-> status]

Replace(bag, old, new) == (bag (-) SetToBag({old})) (+) SetToBag({new})


\* ------------------------------------------------------------------ Init
InitApp ==
    /\ env \in Envs
    /\ mounted = TRUE
    /\ selectedVideo = NoVideo
    /\ dropboxFiles = << >>
    /\ showDropboxFiles = FALSE
    /\ processingStatus = Idle
    /\ toast = "none"
    /\ jobsStarted = 0
    /\ job = NoJob
    /\ requests = << >>
    /\ timers = {}
    /\ timersCreated = [j \in Jobs |-> 0]
    /\ run = [j \in Jobs |-> "none"]
    /\ ticks = 0
    /\ polls = EmptyBag
    /\ statusRequests = [j \in Jobs |-> 0]
    /\ outputsRequests = [j \in Jobs |-> 0]
    /\ observed = [j \in Jobs |-> {}]

\* ------------------------------------------------- App: selecting a video
\* loadDropboxFiles is followed step by step, from one await to the next:
\* LoadStart, LoadPage and LoadFail below.

\* selectDropboxFile(file), from a button of the rendered file list: the list
\* is rendered while showDropboxFiles, and its buttons only while no listing is
\* loading (the spinner takes their place).
SelectDropboxFile(f) ==
    /\ mounted
    /\ showDropboxFiles
    /\ ~isLoadingDropboxFiles
    /\ f \in Listed
    /\ selectedVideo' = f
    /\ showDropboxFiles' = FALSE
    /\ UNCHANGED << env, mounted, dropboxFiles, processingStatus, toast,
                    jobsStarted, job, requests, pollVars >>
    /\ UNCHANGED nonAppVars

\* The App component is torn down. App registers one effect (dark mode), which
\* returns no cleanup.
Unmount ==
    /\ mounted
    /\ mounted' = FALSE
    /\ UNCHANGED << env, selectedVideo, dropboxFiles, showDropboxFiles,
                    processingStatus, toast, jobsStarted, job, requests,
                    pollVars >>
    /\ UNCHANGED nonAppVars


\* ---------------------------------------------------- App: processVideo
\* Variant for sensitivity analysis: the video_id is not taken from the get-upload-url response.
FinalizeRef_Missing(j) == Undefined

\* The ${video_id} of the finalize-upload URL: the one get-upload-url returned.
FinalizeRef(j) == j.video_id

\* Variant for sensitivity analysis: the outer catch block resets the status like the inner one.
ProcessingError_Idle == Idle

\* What processVideo does when a Mosaic request of the upload pipeline fails:
\* the outer catch block.
ProcessingError ==
    PS("error", "An error occurred during processing", Undefined, NoUrls)

\* A click on the Process button: processVideo up to its first await. It reads
\* selectedVideo, dropboxFiles, shortType and promptText of the render it was
\* created in; st and pt are the short type and the prompt text the user has
\* set by then (the three short-type buttons and the prompt text box work at
\* any time). A selected file that is no longer listed ends the call.
ProcessVideoStart(st, pt) ==
    /\ mounted
    /\ ProcessButtonEnabled
    /\ jobsStarted < MaxJobs
    /\ jobsStarted' = jobsStarted + 1
    /\ IF selectedVideo \in Listed
       THEN /\ processingStatus' =
                   PS("uploading", "Uploading video to Mosaic...", Undefined, NoUrls)
            /\ job' = [id |-> jobsStarted + 1, pc |-> "download",
                       shortType |-> st, promptText |-> pt,
                       video_id |-> Undefined, fileId |-> Undefined]
            /\ toast' = toast
       ELSE /\ processingStatus' = Idle
            /\ job' = [NoJob EXCEPT !.id = jobsStarted + 1, !.pc = "returned"]
            /\ toast' = "Error"
    /\ UNCHANGED << uiVars, requests, pollVars >>
    /\ UNCHANGED nonAppVars

\* The Dropbox download returned the blob: get-upload-url is requested.
DownloadOk ==
    /\ job.pc = "download"
    /\ job' = [job EXCEPT !.pc = "getUploadUrl"]
    /\ requests' = Append(requests,
                          Request(job.id, "get-upload-url", Undefined, NoBody))
    /\ UNCHANGED << uiVars, processingStatus, toast, jobsStarted, pollVars >>
    /\ UNCHANGED nonAppVars

\* The Dropbox download failed (a network error or a response that is not ok):
\* the inner catch block.
DownloadFail ==
    /\ job.pc = "download"
    /\ job' = [job EXCEPT !.pc = "returned"]
    /\ toast' = "Download Error"
    /\ processingStatus' = SetProcessingStatus(Idle)
    /\ UNCHANGED << uiVars, jobsStarted, requests, pollVars >>
    /\ UNCHANGED nonAppVars

\* get-upload-url returned { upload_url, video_id }: the PUT is issued.
GetUploadUrlOk ==
    /\ job.pc = "getUploadUrl"
    /\ job' = [job EXCEPT !.pc = "put", !.video_id = VideoIds[job.id]]
    /\ requests' = Append(requests, Request(job.id, "put", Undefined, NoBody))
    /\ UNCHANGED << uiVars, processingStatus, toast, jobsStarted, pollVars >>
    /\ UNCHANGED nonAppVars

\* The PUT to the signed URL succeeded: finalize-upload/${video_id}.
PutOk ==
    /\ job.pc = "put"
    /\ job' = [job EXCEPT !.pc = "finalize"]
    /\ requests' = Append(requests,
           Request(job.id, "finalize-upload", FinalizeRef(job), NoBody))
    /\ UNCHANGED << uiVars, processingStatus, toast, jobsStarted, pollVars >>
    /\ UNCHANGED nonAppVars

\* finalize-upload returned file_uuid: the status becomes 'processing' and
\* run-agent is requested.
FinalizeOk ==
    /\ job.pc = "finalize"
    /\ job' = [job EXCEPT !.pc = "runAgent", !.fileId = FileUuids[job.id]]
    /\ processingStatus' = SetProcessingStatus(
           PS("processing", "Creating your short video...", Undefined, NoUrls))
    /\ requests' = Append(requests,
           Request(job.id, "run-agent", Undefined,
                   AgentRequest(job.shortType, job.promptText, job'.fileId)))
    /\ UNCHANGED << uiVars, toast, jobsStarted, pollVars >>
    /\ UNCHANGED nonAppVars

\* run-agent returned agent_run_id: setInterval starts the poll timer and
\* processVideo returns.
RunAgentOk ==
    /\ job.pc = "runAgent"
    /\ job' = [job EXCEPT !.pc = "polling"]
    /\ timers' = timers \cup {job.id}
    /\ timersCreated' = [timersCreated EXCEPT ![job.id] = @ + 1]
    /\ run' = [run EXCEPT ![job.id] = "pending"]
    /\ UNCHANGED << uiVars, processingStatus, toast, jobsStarted, requests, ticks,
                    polls, statusRequests, outputsRequests, observed >>
    /\ UNCHANGED nonAppVars

\* get-upload-url, the PUT, finalize-upload or run-agent failed: the outer
\* catch block.
RequestFail ==
    /\ job.pc \in {"getUploadUrl", "put", "finalize", "runAgent"}
    /\ job' = [job EXCEPT !.pc = "failed"]
    /\ processingStatus' = SetProcessingStatus(ProcessingError)
    /\ toast' = "Processing Error"
    /\ UNCHANGED << uiVars, jobsStarted, requests, pollVars >>
    /\ UNCHANGED nonAppVars

\* ------------------------------------------------ App: the poll timer
\* The server moves a run forward; 'success' and 'failed' are final.
ServerAdvance(j, s) ==
    /\ \/ run[j] = "pending" /\ s \in {"processing", "failed"}
       \/ run[j] = "processing" /\ s \in {"success", "failed"}
    /\ run' = [run EXCEPT ![j] = s]
    /\ UNCHANGED << uiVars, processingStatus, toast, jobsStarted, job, requests,
                    timers, timersCreated, ticks, polls, statusRequests,
                    outputsRequests, observed >>
    /\ UNCHANGED nonAppVars

\* The interval timer of job j fires: the callback requests the run's status.
\* A tick does not wait for the callback of an earlier tick.
Tick(j) ==
    /\ j \in timers
    /\ ticks < MaxTicks
    /\ ticks' = ticks + 1
    /\ polls' = polls (+) SetToBag({Poll(j, "sent", Undefined)})
    /\ statusRequests' = [statusRequests EXCEPT ![j] = @ + 1]
    /\ UNCHANGED << uiVars, processingStatus, toast, jobsStarted, job, requests,
                    timers, timersCreated, run, outputsRequests, observed >>
    /\ UNCHANGED nonAppVars

\* The server answers a status request with the run's status.
ServeStatus(p) ==
    /\ p.pc = "sent"
    /\ polls' = Replace(polls, p, Poll(p.job, "served", run[p.job]))
    /\ UNCHANGED << uiVars, processingStatus, toast, jobsStarted, job, requests,
                    timers, timersCreated, run, ticks, statusRequests,
                    outputsRequests, observed >>
    /\ UNCHANGED nonAppVars

\* A status response reaches its callback.
StatusResponse(p) ==
    /\ p.pc = "served"
    /\ observed' = [observed EXCEPT ![p.job] = @ \cup {p.status}]
    /\ timers' = IF ClearsInterval(p.status) THEN timers \ {p.job} ELSE timers
    /\ IF RequestsOutputs(p.status)
       THEN /\ polls' = Replace(polls, p, Poll(p.job, "outputs", p.status))
            /\ outputsRequests' = [outputsRequests EXCEPT ![p.job] = @ + 1]
            /\ processingStatus' = processingStatus
       ELSE /\ polls' = polls (-) SetToBag({p})
            /\ outputsRequests' = outputsRequests
            /\ processingStatus' = SetProcessingStatus(
                   PollStatus(p.status, ReportedProgress(p.status)))
    /\ UNCHANGED << uiVars, toast, jobsStarted, job, requests, timersCreated,
                    run, ticks, statusRequests >>
    /\ UNCHANGED nonAppVars

\* A status request fails: the callback's catch block. (A response lost on its
\* way back is a request that failed: the callback cannot tell them apart.)
StatusError(p) ==
    /\ p.pc = "sent"
    /\ polls' = polls (-) SetToBag({p})
    /\ timers' = timers \ {p.job}
    /\ UNCHANGED << uiVars, processingStatus, toast, jobsStarted, job, requests,
                    timersCreated, run, ticks, statusRequests, outputsRequests,
                    observed >>
    /\ UNCHANGED nonAppVars

\* The outputs response reaches its callback.
OutputsResponse(p, data) ==
    /\ p.pc = "outputs"
    /\ polls' = polls (-) SetToBag({p})
    /\ processingStatus' = SetProcessingStatus(CompletedStatus(data))
    /\ UNCHANGED << uiVars, toast, jobsStarted, job, requests, timers,
                    timersCreated, run, ticks, statusRequests, outputsRequests,
                    observed >>
    /\ UNCHANGED nonAppVars

\* The outputs request fails: the callback's catch block.
OutputsError(p) ==
    /\ p.pc = "outputs"
    /\ polls' = polls (-) SetToBag({p})
    /\ timers' = timers \ {p.job}
    /\ UNCHANGED << uiVars, processingStatus, toast, jobsStarted, job, requests,
                    timersCreated, run, ticks, statusRequests, outputsRequests,
                    observed >>
    /\ UNCHANGED nonAppVars

\* ------------------------------------------------------- the folder watcher
WatchFiles == 1..MaxWatchFiles

InitWatcher ==
    /\ wFolder = {}
    /\ wStore = {}
    /\ wSeen = {}
    /\ wPc = "sleep"
    /\ wTodo = {}
    /\ wCurrent = None
    /\ wUploads = [f \in WatchFiles |-> 0]
    /\ wRuns = [f \in WatchFiles |-> 0]
    /\ wRestarts = 0

\* A new video appears in the watched folder.
WFileAppears(f) ==
    /\ f \notin wFolder
    /\ wFolder' = wFolder \cup {f}
    /\ UNCHANGED << wStore, wSeen, wPc, wTodo, wCurrent, wUploads, wRuns, wRestarts >>
    /\ UNCHANGED nonWatcherVars

\* A poll iteration begins: the folder is listed and diffed against the seen-set.
WList ==
    /\ wPc = "sleep"
    /\ wTodo' = wFolder \ wSeen
    /\ wPc' = "pass"
    /\ UNCHANGED << wFolder, wStore, wSeen, wCurrent, wUploads, wRuns, wRestarts >>
    /\ UNCHANGED nonWatcherVars

\* Variant for sensitivity analysis: the next file is started while a run is polled.
WCanStart_WhilePolling == wPc \in {"pass", "polling"}

\* The loop over the unseen files takes the next file when the body for the
\* file before it has returned.
WCanStart == wPc = "pass"

\* The next unseen file is uploaded (URL request, transfer, finalize).
WUpload(f) ==
    /\ WCanStart
    /\ f \in wTodo
    /\ wCurrent' = f
    /\ wUploads' = [wUploads EXCEPT ![f] = @ + 1]
    /\ wPc' = "uploaded"
    /\ UNCHANGED << wFolder, wStore, wSeen, wTodo, wRuns, wRestarts >>
    /\ UNCHANGED nonWatcherVars

\* The agent is run on the uploaded file.
WRun ==
    /\ wPc = "uploaded"
    /\ wRuns' = [wRuns EXCEPT ![wCurrent] = @ + 1]
    /\ wPc' = "polling"
    /\ UNCHANGED << wFolder, wStore, wSeen, wTodo, wCurrent, wUploads, wRestarts >>
    /\ UNCHANGED nonWatcherVars

\* One status poll of the run: a terminal status ends the polling.
WPoll(status) ==
    /\ wPc = "polling"
    /\ wPc' = CASE status = "success" -> "fetch"
                [] status = "failed" -> "finished"
                [] OTHER -> "polling"
    /\ UNCHANGED << wFolder, wStore, wSeen, wTodo, wCurrent, wUploads, wRuns,
                    wRestarts >>
    /\ UNCHANGED nonWatcherVars

\* The outputs of a successful run are fetched and saved.
WFetch ==
    /\ wPc = "fetch"
    /\ wPc' = "finished"
    /\ UNCHANGED << wFolder, wStore, wSeen, wTodo, wCurrent, wUploads, wRuns,
                    wRestarts >>
    /\ UNCHANGED nonWatcherVars

\* The seen-set after file f was processed.
MarkSeen(seen, f) == seen \cup {f}

\* Variant for sensitivity analysis: the seen-set is never written to disk.
Persist_Never(store, seen) == store

\* The seen-set written to disk.
Persist(store, seen) == seen

\* The file is marked seen, and the seen-set is persisted.
WMarkSeen ==
    /\ wPc = "finished"
    /\ wSeen' = MarkSeen(wSeen, wCurrent)
    /\ wStore' = Persist(wStore, wSeen')
    /\ wTodo' = wTodo \ {wCurrent}
    /\ wCurrent' = None
    /\ wPc' = "pass"
    /\ UNCHANGED << wFolder, wUploads, wRuns, wRestarts >>
    /\ UNCHANGED nonWatcherVars

\* Every unseen file of the pass is done: the loop sleeps for the poll interval.
WSleep ==
    /\ wPc = "pass"
    /\ wTodo = {}
    /\ wPc' = "sleep"
    /\ UNCHANGED << wFolder, wStore, wSeen, wTodo, wCurrent, wUploads, wRuns,
                    wRestarts >>
    /\ UNCHANGED nonWatcherVars

\* The watcher is stopped between two passes and started again: the seen-set is
\* reloaded from disk.
WRestart ==
    /\ wPc = "sleep"
    /\ wRestarts < MaxRestarts
    /\ wRestarts' = wRestarts + 1
    /\ wSeen' = wStore
    /\ UNCHANGED << wFolder, wStore, wPc, wTodo, wCurrent, wUploads, wRuns >>
    /\ UNCHANGED nonWatcherVars


\* ------------------------------------------------------------ the chat route
\* A message of the request body: its role, whether it has a toolInvocations
\* field, and the state of each invocation.
Message(role, hasInvocations, states) ==
    [role |-> role, hasInvocations |-> hasInvocations, states |-> states]

\* The messages useChat can send: user messages, assistant messages without
\* tools, with an empty list of invocations, with finished and with unfinished
\* invocations.
MessageKinds ==
    { Message("user", FALSE, << >>),
      Message("user", TRUE, << "call" >>),
      Message("assistant", FALSE, << >>),
      Message("assistant", TRUE, << >>),
      Message("assistant", TRUE, << "result" >>),
      Message("assistant", TRUE, << "result", "call" >>),
      Message("assistant", TRUE, << "partial-call" >>) }

\* The bodies of a request: each message carries its position as its id.
RECURSIVE SeqsUpTo(_, _)
SeqsUpTo(S, n) ==
    IF n = 0 THEN { << >> }
    ELSE LET shorter == SeqsUpTo(S, n - 1)
         IN  shorter \cup { Append(q, x) : q \in shorter, x \in S }

Bodies ==
    { [i \in DOMAIN kinds |-> [id |-> i, msg |-> kinds[i]]] :
        kinds \in SeqsUpTo(MessageKinds, MaxMessages) }

\* Variant for sensitivity analysis: every assistant message with tool invocations is dropped.
KeepMessage_NoInvocations(msg) ==
    ~(msg.role = "assistant" /\ msg.hasInvocations)

\* The predicate of messages.filter: an assistant message with toolInvocations
\* is kept when every invocation has state 'result' (every() of an empty list
\* is true); any other message is kept.
KeepMessage(msg) ==
    IF msg.role = "assistant" /\ msg.hasInvocations
    THEN \A k \in DOMAIN msg.states : msg.states[k] = "result"
    ELSE TRUE

FilteredMessages(messages) ==
    SelectSeq(messages, LAMBDA m : KeepMessage(m.msg))

NoStream == [called |-> FALSE, messages |-> << >>]

NoResponse == [status |-> "none", body |-> "none"]

\* Variant for sensitivity analysis: the catch block answers like the success path.
CatchResponse_Stream == [status |-> "200", body |-> "data-stream"]

\* The Response of the catch block.
CatchResponse == [status |-> "500", body |-> "Failed to initialize MCP client"]

\* result.toDataStreamResponse()
DataStreamResponse == [status |-> "200", body |-> "data-stream"]

InitRoute ==
    /\ rRequests = 0
    /\ rPc = "idle"
    /\ rMessages = << >>
    /\ rFiltered = << >>
    /\ rClient = "none"
    /\ rStream = NoStream
    /\ rResponse = NoResponse

\* POST is called with a request: the body is parsed and filtered, and
\* createMCPClient is awaited.
Post(messages) ==
    /\ rPc \in {"idle", "done"}
    /\ rRequests < MaxRequests
    /\ rRequests' = rRequests + 1
    /\ rMessages' = messages
    /\ rFiltered' = FilteredMessages(messages)
    /\ rClient' = "none"
    /\ rStream' = NoStream
    /\ rResponse' = NoResponse
    /\ rPc' = "createMCPClient"
    /\ UNCHANGED nonRouteVars

\* createMCPClient resolved: mcpClient.tools() is awaited.
CreateClientOk ==
    /\ rPc = "createMCPClient"
    /\ rClient' = "open"
    /\ rPc' = "tools"
    /\ UNCHANGED << rRequests, rMessages, rFiltered, rStream, rResponse >>
    /\ UNCHANGED nonRouteVars

\* createMCPClient rejected: the catch block.
CreateClientFail ==
    /\ rPc = "createMCPClient"
    /\ rResponse' = CatchResponse
    /\ rPc' = "done"
    /\ UNCHANGED << rRequests, rMessages, rFiltered, rClient, rStream >>
    /\ UNCHANGED nonRouteVars

\* The first mcpClient.tools() resolved: the arguments of streamText are
\* evaluated, which awaits mcpClient.tools() again.
ToolsOk ==
    /\ rPc = "tools"
    /\ rPc' = "toolsAgain"
    /\ UNCHANGED << rRequests, rMessages, rFiltered, rClient, rStream, rResponse >>
    /\ UNCHANGED nonRouteVars

\* mcpClient.tools() rejected, the first or the second time: the catch block,
\* in which mcpClient is out of scope.
ToolsFail ==
    /\ rPc \in {"tools", "toolsAgain"}
    /\ rResponse' = CatchResponse
    /\ rPc' = "done"
    /\ UNCHANGED << rRequests, rMessages, rFiltered, rClient, rStream >>
    /\ UNCHANGED nonRouteVars

\* The second mcpClient.tools() resolved: streamText is called with
\* filteredMessages and POST returns its data-stream response.
StreamText ==
    /\ rPc = "toolsAgain"
    /\ rStream' = [called |-> TRUE, messages |-> rFiltered]
    /\ rResponse' = DataStreamResponse
    /\ rPc' = "streaming"
    /\ UNCHANGED << rRequests, rMessages, rFiltered, rClient >>
    /\ UNCHANGED nonRouteVars

\* The stream finishes: onFinish closes the client.
StreamFinish ==
    /\ rPc = "streaming"
    /\ rClient' = "closed"
    /\ rPc' = "done"
    /\ UNCHANGED << rRequests, rMessages, rFiltered, rStream, rResponse >>
    /\ UNCHANGED nonRouteVars

\* The stream ends in an error: streamText calls onError, which POST does not
\* pass, and not onFinish.
StreamError ==
    /\ rPc = "streaming"
    /\ rPc' = "done"
    /\ UNCHANGED << rRequests, rMessages, rFiltered, rClient, rStream, rResponse >>
    /\ UNCHANGED nonRouteVars


\* ------------------------------------- App: loadDropboxFiles, page by page
\* An entry of a list_folder page: its '.tag', its name (a list of characters)
\* and its id.
Entry(tag, name, id) == [tag |-> tag, name |-> name, id |-> id]

\* The pages Dropbox can answer with: a video file next to a folder with a
\* video name, a video file with an upper-case extension next to a text file,
\* and a file whose name is an extension without its dot.
DropboxPages ==
    { << Entry("file", << "a", ".", "m", "p", "4" >>, "id:1"),
         Entry("folder", << "d", ".", "m", "p", "4" >>, "id:4") >>,
      << Entry("file", << "B", ".", "M", "O", "V" >>, "id:2"),
         Entry("file", << "c", ".", "t", "x", "t" >>, "id:3") >>,
      << Entry("file", << "m", "p", "4" >>, "id:5") >> }

\* The two loadDropboxFiles calls followed.
Loads == {"load-1", "load-2"}

\* const videoExtensions
videoExtensions ==
    << << ".", "m", "p", "4" >>, << ".", "m", "o", "v" >>,
       << ".", "a", "v", "i" >>, << ".", "m", "k", "v" >>,
       << ".", "w", "e", "b", "m" >>, << ".", "m", "4", "v" >>,
       << ".", "w", "m", "v" >>, << ".", "f", "l", "v" >> >>

\* String.prototype.toLowerCase, on the characters of the names above.
LowerChar(c) ==
    CASE c = "B" -> "b"
      [] c = "M" -> "m"
      [] c = "O" -> "o"
      [] c = "V" -> "v"
      [] OTHER -> c

ToLowerCase(name) == [i \in DOMAIN name |-> LowerChar(name[i])]

\* String.prototype.endsWith
EndsWith(name, suffix) ==
    /\ Len(suffix) <= Len(name)
    /\ SubSeq(name, Len(name) - Len(suffix) + 1, Len(name)) = suffix

\* Variant for sensitivity analysis: the extension is compared without lower-casing the name.
IsVideoFile_CaseSensitive(entry) ==
    /\ entry.tag = "file"
    /\ \E i \in DOMAIN videoExtensions : EndsWith(entry.name, videoExtensions[i])

\* The predicate of response.data.entries.filter.
IsVideoFile(entry) ==
    /\ entry.tag = "file"
    /\ \E i \in DOMAIN videoExtensions :
          EndsWith(ToLowerCase(entry.name), videoExtensions[i])

\* The VideoFile ids pushed for a page: videoFiles.forEach(... id: file.id ...)
VideoFilesOf(entries) ==
    LET videoFiles == SelectSeq(entries, IsVideoFile)
    IN  [i \in DOMAIN videoFiles |-> videoFiles[i].id]

\* The pages Dropbox answers with where the listing is followed together with
\* processVideo: those whose video files are among Files.
Listings ==
    { entries \in DropboxPages :
        \A i \in DOMAIN entries :
            IsVideoFile(entries[i]) => entries[i].id \in Files }

\* A loadDropboxFiles call: where it is, allVideoFiles, and the pages it has
\* received and the endpoints it has requested so far.
NoLoad == [pc |-> "none", allVideoFiles |-> << >>, pages |-> << >>, endpoints |-> << >>]

InitDropbox ==
    /\ isLoadingDropboxFiles = FALSE
    /\ dLoads = [l \in Loads |-> NoLoad]
    /\ dToast = "none"

\* A click on the Dropbox button: loadDropboxFiles up to its first await.
\* Without an access token the call ends here; otherwise list_folder is
\* requested.
LoadStart(l) ==
    /\ mounted
    /\ dLoads[l].pc = "none"
    /\ showDropboxFiles' = TRUE
    /\ IF env.token = Undefined
       THEN /\ isLoadingDropboxFiles' = FALSE
            /\ dToast' = "Configuration Error"
            /\ dLoads' = [dLoads EXCEPT ![l].pc = "returned"]
       ELSE /\ isLoadingDropboxFiles' = TRUE
            /\ dToast' = dToast
            /\ dLoads' = [dLoads EXCEPT ![l].pc = "listing",
                                        ![l].endpoints = << "list_folder" >>]
    /\ UNCHANGED dropboxFiles
    /\ UNCHANGED nonDropboxVars

\* A page arrives: its video files are pushed; with has_more the next page is
\* requested with the cursor, otherwise the loop ends, setDropboxFiles is
\* called, a toast tells the number of videos, and finally the loading flag is
\* reset.
LoadPage(l, entries, has_more) ==
    /\ dLoads[l].pc = "listing"
    /\ Len(dLoads[l].pages) < MaxPages
    /\ LET all == dLoads[l].allVideoFiles \o VideoFilesOf(entries)
           pages == Append(dLoads[l].pages,
                           [entries |-> entries, has_more |-> has_more])
       IN  IF has_more
           THEN /\ dLoads' = [dLoads EXCEPT ![l] =
                      [pc |-> "listing", allVideoFiles |-> all, pages |-> pages,
                       endpoints |-> Append(@.endpoints, "list_folder/continue")]]
                /\ UNCHANGED << dropboxFiles, isLoadingDropboxFiles, dToast >>
           ELSE /\ dLoads' = [dLoads EXCEPT ![l] =
                      [pc |-> "done", allVideoFiles |-> all, pages |-> pages,
                       endpoints |-> @.endpoints]]
                /\ dropboxFiles' = IF mounted THEN all ELSE dropboxFiles
                /\ dToast' = IF Len(all) = 0 THEN "No Videos Found" ELSE "Videos Found"
                /\ isLoadingDropboxFiles' =
                      IF mounted THEN FALSE ELSE isLoadingDropboxFiles
    /\ UNCHANGED showDropboxFiles
    /\ UNCHANGED nonDropboxVars

\* A list_folder request fails: the catch block, then the finally block.
LoadFail(l) ==
    /\ dLoads[l].pc = "listing"
    /\ dLoads' = [dLoads EXCEPT ![l].pc = "failed"]
    /\ dToast' = "Error"
    /\ isLoadingDropboxFiles' = IF mounted THEN FALSE ELSE isLoadingDropboxFiles
    /\ UNCHANGED << dropboxFiles, showDropboxFiles >>
    /\ UNCHANGED nonDropboxVars


\* --------------------------------------------------------- the Home page
\* The content of a message: which of the texts the effects look for it
\* includes, and the code of its first complete tsx block (Null without one).
Content(includes, block) == [includes |-> includes, block |-> block]

\* The opening fence of a tsx code block (three backquotes and tsx).
TsxFence == "[fence]tsx"

\* INITIAL_MESSAGE and the texts of the quick actions include none of them.
UserContent == Content({}, Null)

\* What the assistant can have written: plain text, an open tsx fence, a page,
\* the upload confirmation, the caption notice, an updated page, and one text
\* with every marker.
AssistantContents ==
    { Content({}, Null),
      Content({TsxFence}, Null),
      Content({TsxFence}, "code-1"),
      Content({"uploaded successfully"}, Null),
      Content({"Processing", "may take"}, Null),
      Content({TsxFence}, "code-2"),
      Content({TsxFence, "uploaded successfully", "may take"}, "code-1") }

ChatMessage(role, content) == [role |-> role, content |-> content]

\* content.includes(text)
Includes(content, text) == text \in content.includes

\* content.match of a fenced tsx block: the code of the first complete one.
CodeMatch(content) == content.block

\* A streamed message grows: what it included it still includes, and a complete
\* block stays the first one.
Extends(old, new) ==
    /\ old.includes \subseteq new.includes
    /\ old.block # Null => new.block = old.block
    /\ old # new

Last(messages) == messages[Len(messages)]

\* Variant for sensitivity analysis: the marker alone decides the step.
TrackProgress_IgnoreStep(step, messages) ==
    IF messages = << >> \/ Last(messages).role # "assistant" THEN step
    ELSE IF Includes(Last(messages).content, TsxFence) THEN "upload"
    ELSE IF Includes(Last(messages).content, "uploaded successfully") THEN "caption"
    ELSE IF Includes(Last(messages).content, "Processing")
            \/ Includes(Last(messages).content, "may take") THEN "status"
    ELSE step

\* The 'Track conversation progress' effect: the step it leaves.
TrackProgress(step, messages) ==
    IF messages = << >> THEN step
    ELSE LET lastMessage == Last(messages)
         IN  IF step = "initial" /\ lastMessage.role = "assistant"
                   /\ Includes(lastMessage.content, TsxFence)
             THEN "upload"
             ELSE IF step = "upload" /\ lastMessage.role = "assistant"
                        /\ Includes(lastMessage.content, "uploaded successfully")
             THEN "caption"
             ELSE IF step = "caption" /\ lastMessage.role = "assistant"
                        /\ (Includes(lastMessage.content, "Processing")
                            \/ Includes(lastMessage.content, "may take"))
             THEN "status"
             ELSE step

\* The 'Extract code from messages' effect: the code it leaves.
ExtractCode(old, messages) ==
    LET assistant == SelectSeq(messages, LAMBDA m : m.role = "assistant")
    IN  IF assistant = << >> THEN old
        ELSE IF CodeMatch(Last(assistant).content) # Null
        THEN CodeMatch(Last(assistant).content)
        ELSE old

\* Variant for sensitivity analysis: the effect does not consult hasInitialized.
AutoSends_NoRef(initialized, messages) == Len(messages) = 0

\* Whether the 'Auto-send initial message' effect calls append.
AutoSends(initialized, messages) == ~initialized /\ Len(messages) = 0

\* The append calls of the effect when React invokes it once or, as for the
\* effects of a mount in strict mode, twice for one render: both invocations
\* see the messages of that render, the second one sees the ref the first one
\* has set.
AutoSendCalls(initialized, messages, invocations) ==
    LET first == AutoSends(initialized, messages)
        second == invocations = 2 /\ AutoSends(initialized \/ first, messages)
    IN  (IF first THEN 1 ELSE 0) + (IF second THEN 1 ELSE 0)

RECURSIVE Appended(_, _)
Appended(messages, n) ==
    IF n = 0 THEN messages
    ELSE Append(Appended(messages, n - 1), ChatMessage("user", UserContent))

\* reload(): the messages it sends, the last one dropped if the assistant wrote
\* it.
Reloaded(messages) ==
    IF messages # << >> /\ Last(messages).role = "assistant"
    THEN SubSeq(messages, 1, Len(messages) - 1)
    ELSE messages

InitHome ==
    /\ hMessages = << >>
    /\ hError = FALSE
    /\ hStatus = "ready"
    /\ hReloads = 0
    /\ hAppends = 0
    /\ currentStep = "initial"
    /\ code = ""
    /\ hasInitialized = FALSE
    /\ hDirty = {"mount"}

\* The effects of a render run: the auto-send effect when the number of
\* messages changed, the progress effect when the messages or the step
\* changed, the code effect when the messages changed.
Effects(invocations) ==
    /\ hDirty # {}
    /\ LET byMessages == hDirty \ {"currentStep"} # {}
           calls == IF byMessages
                    THEN AutoSendCalls(hasInitialized, hMessages, invocations)
                    ELSE 0
           sends == calls > 0
           step == TrackProgress(currentStep, hMessages)
       IN  /\ hasInitialized' = (hasInitialized \/ sends)
           /\ hMessages' = Appended(hMessages, calls)
           /\ hAppends' = hAppends + calls
           /\ hStatus' = IF sends THEN "submitted" ELSE hStatus
           /\ hError' = IF sends THEN FALSE ELSE hError
           /\ currentStep' = step
           /\ code' = IF byMessages THEN ExtractCode(code, hMessages) ELSE code
           /\ hDirty' = (IF sends THEN {"append"} ELSE {})
                           \cup (IF step # currentStep THEN {"currentStep"} ELSE {})
    /\ UNCHANGED hReloads
    /\ UNCHANGED nonHomeVars

\* A click on the quick action of the current step: handleQuickAction appends
\* a user message, which sends the conversation.
QuickAction ==
    /\ hDirty = {}
    /\ currentStep \in {"upload", "caption", "status"}
    /\ Len(hMessages) < MaxChat
    /\ hMessages' = Append(hMessages, ChatMessage("user", UserContent))
    /\ hAppends' = hAppends + 1
    /\ hStatus' = "submitted"
    /\ hError' = FALSE
    /\ hDirty' = {"append"}
    /\ UNCHANGED << hReloads, currentStep, code, hasInitialized >>
    /\ UNCHANGED nonHomeVars

\* The first part of the response arrives: useChat adds an assistant message.
Respond(content) ==
    /\ hDirty = {}
    /\ hStatus = "submitted"
    /\ Len(hMessages) < MaxChat
    /\ hMessages' = Append(hMessages, ChatMessage("assistant", content))
    /\ hStatus' = "streaming"
    /\ hDirty' = {"stream"}
    /\ UNCHANGED << hError, hReloads, hAppends, currentStep, code, hasInitialized >>
    /\ UNCHANGED nonHomeVars

\* More of the response arrives: the assistant message grows.
Stream(content) ==
    /\ hDirty = {}
    /\ hStatus = "streaming"
    /\ Extends(Last(hMessages).content, content)
    /\ hMessages' = [hMessages EXCEPT ![Len(hMessages)].content = content]
    /\ hDirty' = {"stream"}
    /\ UNCHANGED << hError, hStatus, hReloads, hAppends, currentStep, code,
                    hasInitialized >>
    /\ UNCHANGED nonHomeVars

\* The response is complete.
Finish ==
    /\ hDirty = {}
    /\ hStatus = "streaming"
    /\ hStatus' = "ready"
    /\ UNCHANGED << hMessages, hError, hReloads, hAppends, currentStep, code,
                    hasInitialized, hDirty >>
    /\ UNCHANGED nonHomeVars

\* The request fails, before or within the response: useChat reports the
\* error and onError logs it. The messages received stay.
ChatError ==
    /\ hDirty = {}
    /\ hStatus \in {"submitted", "streaming"}
    /\ hError' = TRUE
    /\ hStatus' = "ready"
    /\ UNCHANGED << hMessages, hReloads, hAppends, currentStep, code,
                    hasInitialized, hDirty >>
    /\ UNCHANGED nonHomeVars

\* Variant for sensitivity analysis: no Retry control is rendered.
RetryShown_Never == FALSE

\* The Retry control is rendered while there is an error.
RetryShown == hError

\* A click on Retry: reload().
Retry ==
    /\ hDirty = {}
    /\ RetryShown
    /\ hReloads < MaxReloads
    /\ hReloads' = hReloads + 1
    /\ hMessages' = Reloaded(hMessages)
    /\ hError' = FALSE
    /\ hStatus' = "submitted"
    /\ hDirty' = IF hMessages' # hMessages THEN {"reload"} ELSE {}
    /\ UNCHANGED << hAppends, currentStep, code, hasInitialized >>
    /\ UNCHANGED nonHomeVars


\* ------------------------------------------------------ the Chat component
\* The geometry of the message list, in px, and the positions a scroll event
\* can report: the top, the middle, 10 px and 9 px above the end, and the end.
ScrollHeight == 600
ClientHeight == 500
ScrollPositions == {0, 50, 90, 91, 100}

\* The delay of the resume timeout, in ms, and the time between two steps of
\* the clock.
ResumeDelay == 2000
TimeStep == 1000

\* scrollTimeoutRef.current === null
NoTimer == 0

Abs(n) == IF n < 0 THEN 0 - n ELSE n

\* Variant for sensitivity analysis: no position counts as the bottom.
IsAtBottom_Never(top) == FALSE

\* Math.abs(scrollHeight - clientHeight - scrollTop) < 10
IsAtBottom(top) == Abs(ScrollHeight - ClientHeight - top) < 10

\* Variant for sensitivity analysis: clearTimeout has no effect.
ClearTimeout_Kept(pending, id) == pending

\* if (scrollTimeoutRef.current) clearTimeout(scrollTimeoutRef.current): the
\* timeout with that id, if still pending, is cancelled.
ClearTimeout(pending, id) ==
    IF id # NoTimer THEN { t \in pending : t.id # id } ELSE pending

Timeout(id, left) == [id |-> id, left |-> left]

InitChat ==
    /\ cMounted = TRUE
    /\ scrollTop = 0
    /\ lastScrollPosition = 0
    /\ isUserScrolling = FALSE
    /\ scrollTimeout = NoTimer
    /\ cPending = {}
    /\ cTimeouts = 0
    /\ cScrolls = 0
    /\ cSince = ResumeDelay

\* A scroll event of the message list at position top (by the user, or by the
\* scrollTo of the auto-scroll effect): handleScroll.
HandleScroll(top) ==
    /\ cMounted
    /\ cScrolls < MaxScrolls
    /\ cScrolls' = cScrolls + 1
    /\ scrollTop' = top
    /\ LET isAtBottom == IsAtBottom(top)
           up == ~isAtBottom /\ top < lastScrollPosition
           cleared == ClearTimeout(cPending, scrollTimeout)
       IN  /\ cTimeouts' = IF up THEN cTimeouts + 1 ELSE cTimeouts
           /\ scrollTimeout' = IF up THEN cTimeouts' ELSE scrollTimeout
           /\ cPending' = IF up
                          THEN cleared \cup {Timeout(cTimeouts', ResumeDelay)}
                          ELSE IF isAtBottom THEN cleared
                          ELSE cPending
           /\ isUserScrolling' = IF up THEN TRUE
                                 ELSE IF isAtBottom THEN FALSE
                                 ELSE isUserScrolling
           /\ cSince' = IF up THEN 0 ELSE cSince
    /\ lastScrollPosition' = top
    /\ UNCHANGED cMounted
    /\ UNCHANGED nonChatVars

\* Time passes, as long as no pending timeout is due.
TimePasses ==
    /\ \A t \in cPending : t.left > 0
    /\ cPending' = { Timeout(t.id, IF t.left > TimeStep THEN t.left - TimeStep ELSE 0) :
                        t \in cPending }
    /\ cSince' = IF cSince + TimeStep < ResumeDelay THEN cSince + TimeStep
                 ELSE ResumeDelay
    /\ UNCHANGED << cMounted, scrollTop, lastScrollPosition, isUserScrolling,
                    scrollTimeout, cTimeouts, cScrolls >>
    /\ UNCHANGED nonChatVars

\* A pending timeout is due: its callback resumes auto-scroll.
TimeoutFires(t) ==
    /\ t \in cPending
    /\ t.left = 0
    /\ cPending' = cPending \ {t}
    /\ isUserScrolling' = IF cMounted THEN FALSE ELSE isUserScrolling
    /\ UNCHANGED << cMounted, scrollTop, lastScrollPosition, scrollTimeout,
                    cTimeouts, cScrolls, cSince >>
    /\ UNCHANGED nonChatVars

\* The component is torn down: the cleanup of the mount effect.
ChatUnmount ==
    /\ cMounted
    /\ cMounted' = FALSE
    /\ cPending' = ClearTimeout(cPending, scrollTimeout)
    /\ UNCHANGED << scrollTop, lastScrollPosition, isUserScrolling, scrollTimeout,
                    cTimeouts, cScrolls, cSince >>
    /\ UNCHANGED nonChatVars

\* -------------------------------------------------------- specifications
Init ==
    InitApp /\ InitWatcher /\ InitRoute /\ InitDropbox /\ InitHome /\ InitChat

Next ==
    \/ \E l \in Loads : LoadStart(l)
    \/ \E l \in Loads, entries \in Listings : LoadPage(l, entries, FALSE)
    \/ \E l \in Loads : LoadFail(l)
    \/ \E f \in Files : SelectDropboxFile(f)
    \/ Unmount
    \/ \E st \in ShortType, pt \in PromptTexts : ProcessVideoStart(st, pt)
    \/ DownloadOk
    \/ DownloadFail
    \/ GetUploadUrlOk
    \/ PutOk
    \/ FinalizeOk
    \/ RunAgentOk
    \/ RequestFail
    \/ \E j \in Jobs, s \in RunStatus : ServerAdvance(j, s)
    \/ \E j \in Jobs : Tick(j)
    \/ \E p \in BagToSet(polls) : ServeStatus(p)
    \/ \E p \in BagToSet(polls) : StatusResponse(p)
    \/ \E p \in BagToSet(polls) : StatusError(p)
    \/ \E p \in BagToSet(polls), data \in OutputsData : OutputsResponse(p, data)
    \/ \E p \in BagToSet(polls) : OutputsError(p)

Spec == Init /\ [][Next]_vars

NextWatcher ==
    \/ \E f \in WatchFiles : WFileAppears(f)
    \/ WList
    \/ \E f \in WatchFiles : WUpload(f)
    \/ WRun
    \/ \E status \in RunStatus : WPoll(status)
    \/ WFetch
    \/ WMarkSeen
    \/ WSleep
    \/ WRestart

SpecWatcher == Init /\ [][NextWatcher]_vars

NextRoute ==
    \/ \E messages \in Bodies : Post(messages)
    \/ CreateClientOk
    \/ CreateClientFail
    \/ ToolsOk
    \/ ToolsFail
    \/ StreamText
    \/ StreamFinish
    \/ StreamError

SpecRoute == Init /\ [][NextRoute]_vars

NextDropbox ==
    \/ \E l \in Loads : LoadStart(l)
    \/ \E l \in Loads, entries \in DropboxPages, has_more \in BOOLEAN :
          LoadPage(l, entries, has_more)
    \/ \E l \in Loads : LoadFail(l)
    \/ \E f \in Listed : SelectDropboxFile(f)
    \/ Unmount

SpecDropbox == Init /\ [][NextDropbox]_vars

NextHome ==
    \/ \E invocations \in {1, 2} : Effects(invocations)
    \/ QuickAction
    \/ \E content \in AssistantContents : Respond(content)
    \/ \E content \in AssistantContents : Stream(content)
    \/ Finish
    \/ ChatError
    \/ Retry

SpecHome == Init /\ [][NextHome]_vars

NextChat ==
    \/ \E top \in ScrollPositions : HandleScroll(top)
    \/ TimePasses
    \/ \E t \in cPending : TimeoutFires(t)
    \/ ChatUnmount

SpecChat == Init /\ [][NextChat]_vars

\* Time passes and a due timeout fires.
SpecChatLive ==
    /\ SpecChat
    /\ WF_vars(TimePasses)
    /\ WF_vars(\E t \in cPending : TimeoutFires(t))


\* ------------------------------------------------------------ properties
Terminal == {"success", "failed"}

\* The callback p leaves the bag in this step.
Returns(p) == CopiesIn(p, polls') < CopiesIn(p, polls)

\* The requests of the upload pipeline, in the order of processVideo.
Pipeline == << "get-upload-url", "put", "finalize-upload", "run-agent" >>

\* The pipeline requests of job j, in the order they were issued.
RequestsOf(j) == SelectSeq(requests, LAMBDA r : r.job = j)

\* C1: once a poll callback of a run has received 'success' or 'failed', the
\* run's interval timer is cleared, and from then on no status request is issued
\* for that run.
C1_PollStopsOnTerminal ==
    [][\A j \in Jobs :
          /\ observed'[j] \cap Terminal # {} => j \notin timers'
          /\ observed[j] \cap Terminal # {} =>
                statusRequests'[j] = statusRequests[j]]_vars

\* A callback has received 'failed' and the timer is cleared, at a point where
\* an active timer could have fired again.
C1_Witness ==
    \E j \in Jobs :
        /\ "failed" \in observed[j]
        /\ statusRequests[j] >= 1
        /\ ticks < MaxTicks
        /\ j \notin timers

\* C2: once processingStatus is 'completed' or 'error', no later event changes
\* its status, the response of a status request still in flight included.
C2_TerminalStatusIsFinal ==
    [][processingStatus.status \in {"completed", "error"} =>
          processingStatus'.status = processingStatus.status]_vars

\* C3: after the App component is torn down, no poll tick fires and no status
\* request is issued.
C3_TimerClearedOnTeardown ==
    [][~mounted => statusRequests' = statusRequests /\ ticks' = ticks]_vars

\* C4: a job starts one poll timer, and only once run-agent has returned its
\* run; the Process button is enabled only with a video selected, status 'idle'
\* and no job in flight; so at most one poll timer is active.
C4_OnePollTimer ==
    /\ \A j \in Jobs :
          /\ timersCreated[j] = (IF run[j] # "none" THEN 1 ELSE 0)
          /\ timersCreated[j] = 1 =>
                /\ Len(RequestsOf(j)) = Len(Pipeline)
                /\ RequestsOf(j)[Len(Pipeline)].kind = "run-agent"
          /\ j \in timers => timersCreated[j] = 1
    /\ ProcessButtonEnabled =>
          timers = {} /\ job.pc \in {"none", "returned"} /\ polls = EmptyBag
    /\ Cardinality(timers) <= 1

\* A poll timer is active for the second job, the first one having ended on a
\* failed download.
C4_Witness ==
    /\ timers = {2}
    /\ jobsStarted = 2
    /\ selectedVideo # NoVideo


\* C5: the watcher uploads and runs a file id at most once, and a file id in the
\* persisted seen-set is never uploaded or run again, across restarts too.
C5_SeenNotReprocessed ==
    [][/\ \A f \in WatchFiles : wUploads'[f] <= 1 /\ wRuns'[f] <= 1
       /\ \A f \in wStore :
             wUploads'[f] = wUploads[f] /\ wRuns'[f] = wRuns[f]]_vars

\* After a restart, with a seen file still in the folder, a new file is being
\* uploaded.
C5_Witness ==
    /\ wRestarts >= 1
    /\ wPc = "uploaded"
    /\ wStore \cap wFolder # {}
    /\ wCurrent \notin wStore

Kinds(reqs) == [i \in DOMAIN reqs |-> reqs[i].kind]

IsPrefix(a, b) == Len(a) <= Len(b) /\ a = SubSeq(b, 1, Len(a))

\* The number of pipeline requests issued by the time processVideo is at pc.
IssuedAt(pc) ==
    CASE pc = "getUploadUrl" -> 1
      [] pc = "put" -> 2
      [] pc = "finalize" -> 3
      [] pc \in {"runAgent", "polling"} -> 4
      [] OTHER -> 0

\* C6: a job's requests are get-upload-url, PUT, finalize-upload, run-agent in
\* this order; one is issued only in the step in which the response of the one
\* before it arrived; finalize-upload names the video_id get-upload-url
\* returned, and run-agent the file_uuid finalize-upload returned.
C6_UploadOrder ==
    [][LET reqs == RequestsOf(job.id)'
       IN  /\ requests' = reqs
           /\ IsPrefix(Kinds(reqs), Pipeline)
           /\ job'.pc \notin {"none", "returned", "download", "failed"} =>
                 Len(reqs) = IssuedAt(job'.pc)
           /\ requests' # requests =>
                 /\ job'.id = job.id
                 /\ Len(requests') = Len(requests) + 1
                 /\ IssuedAt(job.pc) = Len(requests)
                 /\ IssuedAt(job'.pc) = Len(requests')
           /\ Len(reqs) >= 3 =>
                 /\ job'.video_id = VideoIds[job'.id]
                 /\ reqs[3].ref = job'.video_id
           /\ Len(reqs) >= 4 =>
                 /\ job'.fileId = FileUuids[job'.id]
                 /\ reqs[4].body.file_id = job'.fileId]_vars

\* The second job has issued all four requests.
C6_Witness ==
    /\ job.id = 2
    /\ Len(requests) = 4
    /\ requests[3].ref = "video-2"
    /\ requests[4].body.file_id = "file-2"

\* C7: an outputs request for a run is issued only by a callback that has just
\* received 'success' for that run, one request per such callback.
C7_OutputsOnlyOnSuccess ==
    [][\A j \in Jobs :
          /\ outputsRequests'[j] # outputsRequests[j] =>
                /\ outputsRequests'[j] = outputsRequests[j] + 1
                /\ Returns(Poll(j, "served", "success"))
                /\ "success" \in observed'[j]
          /\ \A s \in RunStatus \ {"success"} :
                Returns(Poll(j, "served", s)) =>
                   outputsRequests'[j] = outputsRequests[j]]_vars

\* The outputs were requested after callbacks had received 'pending' and
\* 'success'.
C7_Witness ==
    \E j \in Jobs :
        /\ outputsRequests[j] = 1
        /\ {"pending", "success"} \subseteq observed[j]

IsSet(v) == v # Null /\ v # Undefined

\* C8: every run-agent request names an agent or a prompt, not both and not
\* neither: 'webinar' and 'talking' set agent_id with a null prompt and auto
\* false, 'prompt' sets a non-empty prompt with a null agent_id and auto true.
C8_AgentOrPrompt ==
    \A i \in DOMAIN requests :
        requests[i].kind = "run-agent" =>
            LET b == requests[i].body
            IN  \/ IsSet(b.agent_id) /\ b.prompt = Null /\ b.auto = FALSE
                \/ b.agent_id = Null /\ IsSet(b.prompt) /\ b.prompt # ""
                      /\ b.auto = TRUE

\* The UI status the spec gives for a reported run status.
UiStatusFor(status) ==
    CASE status = "success" -> "completed"
      [] status = "failed" -> "error"
      [] OTHER -> "processing"

\* C9: a callback that receives 'failed' sets 'error', one that receives another
\* status than 'success' sets 'processing' with the reported progress, one that
\* receives 'success' sets nothing before the outputs arrive and 'completed'
\* then; and while a run is polled nothing else sets the status.
C9_PollStatusMapping ==
    [][/\ \A p \in BagToSet(polls) :
             /\ (mounted /\ p.pc = "served" /\ Returns(p)) =>
                   IF p.status = "success"
                   THEN processingStatus' = processingStatus
                   ELSE /\ processingStatus'.status = UiStatusFor(p.status)
                        /\ processingStatus'.status = "processing" =>
                              processingStatus'.progress = ReportedProgress(p.status)
             /\ (p.pc = "outputs" /\ Returns(p)
                   /\ processingStatus' # processingStatus) =>
                   processingStatus'.status = UiStatusFor(p.status)
       /\ (job.pc = "polling" /\ processingStatus' # processingStatus) =>
             \E p \in BagToSet(polls) : Returns(p)]_vars

\* Callbacks have received 'processing' and 'failed', and the status is 'error'.
C9_Witness ==
    \E j \in Jobs :
        /\ {"processing", "failed"} \subseteq observed[j]
        /\ processingStatus.status = "error"
        /\ polls = EmptyBag

\* C10: each pipeline request is sent at most once per job; when one fails, the
\* status becomes 'error', the 'Processing Error' toast is shown, and the job
\* issues no request any more.
C10_NoRetry ==
    [][/\ \A j \in Jobs, i1, i2 \in DOMAIN requests' :
             (requests'[i1].job = j /\ requests'[i2].job = j
                 /\ requests'[i1].kind = requests'[i2].kind) => i1 = i2
       /\ (job.pc \in {"getUploadUrl", "put", "finalize", "runAgent"}
              /\ job'.pc = "failed") =>
             /\ requests' = requests
             /\ toast' = "Processing Error"
             /\ mounted => processingStatus'.status = "error"
       /\ job.pc = "failed" =>
             /\ job'.pc = "failed"
             /\ requests' = requests
             /\ statusRequests' = statusRequests
             /\ outputsRequests' = outputsRequests
             /\ timers' = {}]_vars

\* finalize-upload has failed.
C10_Witness ==
    /\ job.pc = "failed"
    /\ Len(requests) = 3
    /\ toast = "Processing Error"
    /\ processingStatus.status = "error"

\* C11: the watcher has one file in flight at a time: when a file is uploaded
\* or run, every other file that was uploaded has been run, has ended its
\* polling (for a successful run, its output fetch too) and is marked seen.
C11_OneFileAtATime ==
    [][/\ \A f \in WatchFiles :
             (wUploads'[f] # wUploads[f] \/ wRuns'[f] # wRuns[f]) =>
                 \A g \in WatchFiles \ {f} :
                     wUploads[g] >= 1 => (wRuns[g] >= 1 /\ g \in wSeen)
       /\ Cardinality({ f \in WatchFiles : wUploads'[f] >= 1 /\ f \notin wSeen' }) <= 1
       /\ \A f \in WatchFiles :
             (wUploads'[f] >= 1 /\ f \notin wSeen') => wCurrent' = f]_vars

\* The second file of a pass is being polled, the first one being done.
C11_Witness ==
    /\ wRestarts = 0
    /\ wPc = "polling"
    /\ wSeen # {}
    /\ wCurrent \in wTodo
    /\ wCurrent \notin wSeen

\* C12: nothing but a response with a terminal status or a failed request
\* clears a poll timer; an active timer can fire, and each firing issues a
\* status request; with a timer active the UI status is 'processing'.
C12_NoClientTimeout ==
    [][/\ \A j \in Jobs :
             (j \in timers /\ j \notin timers') =>
                 \E p \in BagToSet(polls) :
                     /\ p.job = j
                     /\ Returns(p)
                     /\ p.pc = "served" => p.status \in Terminal
       /\ ticks' # ticks =>
             \E j \in timers : statusRequests'[j] = statusRequests[j] + 1
       /\ \A j \in timers : ticks < MaxTicks => ENABLED Tick(j)
       /\ (timers' # {} /\ mounted') => processingStatus'.status = "processing"]_vars

\* Every tick of the bound has fired and was answered with a status that is
\* not terminal; the timer is still active.
C12_Witness ==
    \E j \in timers :
        /\ ticks = MaxTicks
        /\ statusRequests[j] = MaxTicks
        /\ observed[j] = {"pending", "processing"}
        /\ polls = EmptyBag
        /\ processingStatus.status = "processing"
        /\ processingStatus.progress = "50"

\* C17: in status 'error', with a video selected, the Process button is
\* enabled.
C17_RetryAfterError ==
    (mounted /\ processingStatus.status = "error" /\ selectedVideo # NoVideo) =>
        ProcessButtonEnabled

\* C18: once the poll timer of a job is cleared and no callback of the job is
\* waiting for a response, the UI status is 'completed' or 'error'.
C18_NoProcessingWithoutTimer ==
    \A j \in Jobs :
        (/\ mounted
         /\ timersCreated[j] = 1
         /\ j \notin timers
         /\ \A p \in BagToSet(polls) : p.job # j) =>
            processingStatus.status \in {"completed", "error"}

\* ----------------------------------------------- properties: the chat route
\* The positions of the request messages the route is to forward: all but the
\* assistant messages that have an invocation in another state than 'result'.
Complete(m) ==
    ~(m.role = "assistant" /\ m.hasInvocations
        /\ \E k \in DOMAIN m.states : m.states[k] # "result")

\* C16: the messages passed to streamText are the request messages other than
\* assistant messages with an unfinished tool invocation, in their order.
C16_ForwardedMessages ==
    rStream.called =>
        LET fw == rStream.messages
        IN  /\ \A k \in DOMAIN fw :
                  fw[k].id \in DOMAIN rMessages /\ fw[k] = rMessages[fw[k].id]
            /\ \A k1, k2 \in DOMAIN fw : k1 < k2 => fw[k1].id < fw[k2].id
            /\ { fw[k].id : k \in DOMAIN fw } =
                  { i \in DOMAIN rMessages : Complete(rMessages[i].msg) }

\* streamText was called for a request whose first message is an assistant
\* message with an unfinished invocation and whose second one has only results.
C16_Witness ==
    /\ rStream.called
    /\ Len(rMessages) = 2
    /\ rMessages[1].msg = Message("assistant", TRUE, << "result", "call" >>)
    /\ rMessages[2].msg = Message("assistant", TRUE, << "result" >>)
    /\ Len(rStream.messages) = 1

\* C19: when createMCPClient or mcpClient.tools() fails, POST answers 500 with
\* {error: 'Failed to initialize MCP client'} and streamText is not called;
\* otherwise it answers with the data stream of streamText.
C19_InitFailureIs500 ==
    [][/\ (rPc \in {"createMCPClient", "tools", "toolsAgain"} /\ rPc' = "done") =>
             /\ rResponse'.status = "500"
             /\ rResponse'.body = "Failed to initialize MCP client"
             /\ ~rStream'.called
       /\ (rPc = "toolsAgain" /\ rPc' # "done" /\ rPc' # rPc) =>
             /\ rStream'.called
             /\ rResponse'.body = "data-stream"
       /\ (rResponse # NoResponse /\ rRequests' = rRequests) =>
             rResponse' = rResponse /\ rStream' = rStream]_vars

\* The second request was answered 500 after the client had been created.
C19_Witness ==
    /\ rRequests = 2
    /\ rPc = "done"
    /\ rClient = "open"
    /\ rResponse.status = "500"
    /\ ~rStream.called

\* C20: a request that has ended has closed the MCP client it created.
C20_ClientClosed ==
    (rPc = "done" /\ rClient # "none") => rClient = "closed"

\* ------------------------------------------ properties: the Dropbox listing
\* The ids of the entries above that are video files: the files a.mp4 and
\* B.MOV (not the folder d.mp4, not c.txt, not the file mp4).
VideoEntryIds == {"id:1", "id:2"}

RECURSIVE EntriesOf(_)
EntriesOf(pages) ==
    IF pages = << >> THEN << >>
    ELSE Head(pages).entries \o EntriesOf(Tail(pages))

\* The ids of the video files of the pages, in page order.
VideoIdsOf(pages) ==
    LET videos == SelectSeq(EntriesOf(pages), LAMBDA e : e.id \in VideoEntryIds)
    IN  [i \in DOMAIN videos |-> videos[i].id]

\* C14: a loadDropboxFiles call ends its listing at the first page without
\* has_more, having requested list_folder once and list_folder/continue for
\* every further page, and then sets dropboxFiles to the video files of all its
\* pages, in page order.
C14_ListsAllVideos ==
    [][\A l \in Loads :
          /\ (dLoads[l].pc = "listing" /\ dLoads'[l].pc = "done") =>
                LET pages == dLoads'[l].pages
                IN  /\ Len(pages) = Len(dLoads[l].pages) + 1
                    /\ mounted => dropboxFiles' = VideoIdsOf(pages)
                    /\ \A i \in DOMAIN pages :
                          pages[i].has_more = (i < Len(pages))
                    /\ dLoads'[l].endpoints =
                          [i \in DOMAIN pages |->
                              IF i = 1 THEN "list_folder" ELSE "list_folder/continue"]
          /\ (dLoads'[l].pc = "listing" /\ dLoads[l] # dLoads'[l]) =>
                /\ \A i \in DOMAIN dLoads'[l].pages : dLoads'[l].pages[i].has_more
                /\ Len(dLoads'[l].endpoints) = Len(dLoads'[l].pages) + 1
                /\ dropboxFiles' = dropboxFiles]_vars

\* A listing of two pages has ended: B.MOV of the first page, then a.mp4 of the
\* second.
C14_Witness ==
    \E l \in Loads :
        /\ mounted
        /\ dLoads[l].pc = "done"
        /\ Len(dLoads[l].pages) = 2
        /\ dropboxFiles = << "id:2", "id:1" >>
        /\ dLoads[l].allVideoFiles = dropboxFiles

\* -------------------------------------------- properties: the Home page
\* The step after a step, and the texts that move the demo on from a step.
NextStep(step) ==
    CASE step = "initial" -> "upload"
      [] step = "upload" -> "caption"
      [] OTHER -> "status"

MarkersOf(step) ==
    CASE step = "initial" -> {TsxFence}
      [] step = "upload" -> {"uploaded successfully"}
      [] step = "caption" -> {"Processing", "may take"}
      [] OTHER -> {}

\* C13: currentStep changes only from a step to the next one of initial,
\* upload, caption, status, and only when the last message is an assistant
\* message that includes a marker of the step it leaves; status is never left.
C13_StepsForward ==
    [][currentStep' # currentStep =>
          /\ currentStep # "status"
          /\ currentStep' = NextStep(currentStep)
          /\ hMessages # << >>
          /\ Last(hMessages).role = "assistant"
          /\ MarkersOf(currentStep) \cap Last(hMessages).content.includes # {}]_vars

\* The demo has reached status on the first response, which has every marker.
C13_Witness ==
    /\ currentStep = "status"
    /\ Len(hMessages) = 2
    /\ hDirty = {}

\* C15, as stated: while useChat reports an error Retry is shown and can be
\* clicked, a click calls reload(), and neither the error nor the retry, the
\* effects the retry triggers included, changes currentStep or the code.
C15_RetryKeepsState ==
    [][/\ hError => RetryShown
       /\ (hError /\ hReloads < MaxReloads) => ENABLED Retry
       /\ (hError' /\ ~hError) => (currentStep' = currentStep /\ code' = code)
       /\ hReloads' # hReloads =>
             /\ hError /\ hReloads' = hReloads + 1
             /\ currentStep' = currentStep /\ code' = code
       /\ "reload" \in hDirty => (currentStep' = currentStep /\ code' = code)]_vars

\* C15, amended: as above, but when reload() has dropped the assistant's last
\* message the code becomes that of the last assistant message left, if that
\* one has a code block.
C15_RetryKeepsStep ==
    [][/\ hError => RetryShown
       /\ (hError /\ hReloads < MaxReloads) => ENABLED Retry
       /\ (hError' /\ ~hError) => (currentStep' = currentStep /\ code' = code)
       /\ hReloads' # hReloads =>
             /\ hError /\ hReloads' = hReloads + 1
             /\ currentStep' = currentStep /\ code' = code
       /\ "reload" \in hDirty =>
             /\ currentStep' = currentStep
             /\ \/ code' = code
                \/ \E i \in DOMAIN hMessages :
                      /\ hMessages[i].role = "assistant"
                      /\ hMessages[i].content.block = code'
                      /\ \A k \in DOMAIN hMessages :
                            k > i => hMessages[k].role # "assistant"]_vars

\* Retry was clicked after an error within the second response, which had an
\* updated page; the preview shows the page of the first response again.
C15_Witness ==
    /\ hReloads = 1
    /\ hDirty = {}
    /\ hStatus = "submitted"
    /\ Len(hMessages) = 3
    /\ Last(hMessages).role = "user"
    /\ hMessages[2].content.block = "code-1"
    /\ code = "code-1"
    /\ currentStep = "upload"

\* C21: the auto-send effect calls append at most once, however often it runs:
\* only with the ref unset and no message, once for a run, and never again once
\* the ref is set.
C21_AutoSendOnce ==
    [][/\ (hDirty # {} /\ hAppends' # hAppends) =>
             /\ hAppends' = hAppends + 1
             /\ ~hasInitialized /\ hasInitialized'
             /\ hMessages = << >>
             /\ hMessages' = << ChatMessage("user", UserContent) >>
       /\ hasInitialized =>
             /\ hasInitialized'
             /\ hDirty # {} => hAppends' = hAppends]_vars

\* The effect has run again after the response to the initial message came in,
\* and the only append so far is the one of the mount.
C21_Witness ==
    /\ hasInitialized
    /\ hAppends = 1
    /\ Len(hMessages) = 2
    /\ hDirty = {}

\* C24: isLoadingDropboxFiles is true exactly while a loadDropboxFiles call is
\* listing: false once every call has returned, and not false while a call is
\* still listing.
C24_LoadingWhileInFlight ==
    mounted =>
        (isLoadingDropboxFiles <=> \E l \in Loads : dLoads[l].pc = "listing")

\* --------------------------------------- properties: the Chat component
\* The positions within 10 px of the end of the list.
AtBottomPositions == {91, 100}

\* C22: isUserScrolling becomes true only by a scroll-up away from the bottom;
\* it becomes false again by a scroll event at the bottom or by the timeout,
\* 2 s after the last scroll-up, and no more time than that passes with it
\* true; every scroll event at the bottom leaves it false; and once true it
\* becomes false again (while the component is mounted).
C22_AutoScrollResumes ==
    /\ [][/\ (~isUserScrolling /\ isUserScrolling') =>
                /\ cScrolls' # cScrolls
                /\ scrollTop' < scrollTop
                /\ scrollTop' \notin AtBottomPositions
          /\ (isUserScrolling /\ ~isUserScrolling') =>
                \/ cScrolls' # cScrolls /\ scrollTop' \in AtBottomPositions
                \/ cScrolls' = cScrolls /\ cSince = ResumeDelay
          /\ (cScrolls' # cScrolls /\ scrollTop' \in AtBottomPositions) =>
                ~isUserScrolling'
          /\ (cMounted /\ isUserScrolling /\ cSince = ResumeDelay) =>
                (~isUserScrolling' \/ cScrolls' # cScrolls \/ ~cMounted')]_vars
    /\ (cMounted /\ isUserScrolling) ~> (~isUserScrolling \/ ~cMounted)

\* The timeout has resumed auto-scroll: the view is away from the bottom, a
\* timeout was set, none is pending, and isUserScrolling is false.
C22_Witness ==
    /\ cMounted
    /\ ~isUserScrolling
    /\ cTimeouts >= 1
    /\ cPending = {}
    /\ scrollTop \notin AtBottomPositions
    /\ cSince = ResumeDelay

\* C23: at most one resume timeout is pending, the one scrollTimeoutRef holds;
\* none is pending with the view at the bottom, and none after the unmount.
C23_OneResumeTimer ==
    /\ Cardinality(cPending) <= 1
    /\ \A t \in cPending : t.id = scrollTimeout
    /\ scrollTop \in AtBottomPositions => cPending = {}
    /\ ~cMounted => cPending = {}

\* A second scroll-up has replaced the timeout of the first one.
C23_Witness ==
    /\ cTimeouts = 2
    /\ cScrolls = 3
    /\ cPending = {Timeout(2, ResumeDelay)}
    /\ cSince = 0

====
